---- MODULE Spec2Model ----
(***************************************************************************)
(* Orbital correction of interferograms (pyrate/orbital.py).               *)
(*                                                                         *)
(* Numbers.  A phase value is an exact rational <<n, d>> with d > 0 in     *)
(* lowest terms; the no-data value NaN is <<0, 0>>.  Design matrices hold  *)
(* integers (pixel index times an integer cell size).  The two solvers of  *)
(* the source, scipy.linalg.lstsq and dot(numpy.linalg.pinv(A, 1e-6), b),  *)
(* both return the minimum-norm least-squares solution; it is computed     *)
(* here exactly, so "almost equal" in the source reads "equal" here, and   *)
(* the 1e-6 singular value cutoff separates exactly the zero singular      *)
(* values from the others.                                                 *)
(***************************************************************************)
EXTENDS Integers, Sequences, FiniteSets, TLC

VARIABLES
    call,       \* the entry point that is called
    ifgs,       \* the interferograms given to the call (phase_data mutated in place)
    degree,     \* the degree argument
    method,     \* the method argument
    offset,     \* the offset argument
    mlooked,    \* the mlooked argument: [given, items], given FALSE for None
    pc,         \* position of the call
    error,      \* the exception the call ended with, or NoError
    idx,        \* loop index over ifgs
    model,      \* _network_correction: the solution vector (line 136)
    orbs,       \* per interferogram: the surface and the scalar subtracted, the model used
    result,     \* the value a matrix-building call returned
    ifgs0,      \* the interferograms as they were when the call started
    tasks       \* a caller's own tasks, one per interferogram: where each is

vars == <<call, ifgs, degree, method, offset, mlooked, pc, error, idx, model, orbs, result, ifgs0, tasks>>

-----------------------------------------------------------------------------
(* Bounds of the model *)

MaxRows == 2
MaxCols == 2
MaxCellSize == 2
MaxEpochs == 3
MaxIfgs == 2
MaxPhase == 1

-----------------------------------------------------------------------------
(* Constants of the program *)

INDEPENDENT_METHOD == 1
NETWORK_METHOD == 2

PLANAR == 1
QUADRATIC == 2
PART_CUBIC == 3

-----------------------------------------------------------------------------
(* Exact rational arithmetic with NaN *)

NaN == <<0, 0>>
isnan(v) == v[2] = 0

Abs(n) == IF n < 0 THEN -n ELSE n

RECURSIVE GCD(_, _)
GCD(a, b) == IF b = 0 THEN a ELSE GCD(b, a % b)

Rat(n, d) ==
    IF d = 0 THEN NaN
    ELSE LET g == GCD(Abs(n), Abs(d))
             s == IF d < 0 THEN -1 ELSE 1
         IN <<s * (n \div g), s * (d \div g)>>

FromInt(n) == <<n, 1>>
Zero == <<0, 1>>

\* a and b in lowest terms; common factors are cancelled before multiplying
RAdd(a, b) ==
    IF isnan(a) \/ isnan(b) THEN NaN
    ELSE LET g == GCD(a[2], b[2])
         IN  Rat(a[1] * (b[2] \div g) + b[1] * (a[2] \div g), (a[2] \div g) * b[2])
RNeg(a) == <<-a[1], a[2]>>
RSub(a, b) == RAdd(a, RNeg(b))
RMul(a, b) ==
    IF isnan(a) \/ isnan(b) THEN NaN
    ELSE LET g == GCD(Abs(a[1]), b[2])
             h == GCD(Abs(b[1]), a[2])
         IN  <<(a[1] \div g) * (b[1] \div h), (a[2] \div h) * (b[2] \div g)>>
RDiv(a, b) ==
    IF isnan(a) \/ isnan(b) THEN NaN
    ELSE IF b[1] = 0 THEN NaN
    ELSE RMul(a, IF b[1] < 0 THEN <<-b[2], -b[1]>> ELSE <<b[2], b[1]>>)
RLess(a, b) == a[1] * b[2] < b[1] * a[2]

RECURSIVE RSumTo(_, _)
RSumTo(s, n) == IF n = 0 THEN Zero ELSE RAdd(RSumTo(s, n - 1), s[n])

RSum(s) == RSumTo(s, Len(s))

\* evaluate a sequence expression once, entry by entry
Eval(s) == s \o <<>>

-----------------------------------------------------------------------------
(* Linear algebra: matrices are sequences of rows *)

\* dot(M, v) for an integer matrix and a vector of rationals
dot(M, v) ==
    Eval([i \in 1..Len(M) |-> RSum([j \in 1..Len(v) |-> RMul(FromInt(M[i][j]), v[j])])])

\* the rows of M kept by the boolean mask keep, in order: M[keep]
RECURSIVE Compress(_, _)
Compress(M, keep) ==
    IF M = <<>> THEN <<>>
    ELSE (IF keep[1] THEN <<M[1]>> ELSE <<>>) \o Compress(Tail(M), Tail(keep))

\* Gauss-Jordan elimination of the rationals matrix M on its first nc
\* columns, from pivot row pr and column col on
Swap(M, i, j) == [M EXCEPT ![i] = M[j], ![j] = M[i]]

Scale(row, v) == Eval([j \in 1..Len(row) |-> RDiv(row[j], v)])

EliminateWith(M, pr, col, prow) ==
    Eval([i \in 1..Len(M) |->
        IF i = pr THEN prow
        ELSE IF M[i][col] = Zero THEN M[i]
        ELSE Eval([j \in 1..Len(prow) |-> RSub(M[i][j], RMul(M[i][col], prow[j]))])])

Eliminate(M, pr, col) == EliminateWith(M, pr, col, Scale(M[pr], M[pr][col]))

FirstNonZero(M, pr, col) ==
    CHOOSE i \in pr..Len(M) : M[i][col] # Zero /\ \A k \in pr..(i - 1) : M[k][col] = Zero

RECURSIVE Rref(_, _, _, _)
Rref(M, pr, col, nc) ==
    IF pr > Len(M) \/ col > nc THEN M
    ELSE IF \A i \in pr..Len(M) : M[i][col] = Zero THEN Rref(M, pr, col + 1, nc)
    ELSE Rref(Eliminate(Swap(M, pr, FirstNonZero(M, pr, col)), pr, col), pr + 1, col + 1, nc)

RECURSIVE ISumTo(_, _)
ISumTo(s, n) == IF n = 0 THEN 0 ELSE ISumTo(s, n - 1) + s[n]

ISum(s) == ISumTo(s, Len(s))

\* the pivot columns among the first nc columns of an eliminated matrix, in order
RECURSIVE Pivots(_, _, _)
Pivots(M, i, nc) ==
    IF i > Len(M) \/ \A j \in 1..nc : M[i][j] = Zero THEN <<>>
    ELSE <<CHOOSE j \in 1..nc : M[i][j] # Zero /\ \A k \in 1..(j - 1) : M[i][k] = Zero>>
         \o Pivots(M, i + 1, nc)

LastColumn(M) == Eval([i \in 1..Len(M) |-> M[i][Len(M[i])]])

RatMatrix(A) == Eval([i \in 1..Len(A) |-> Eval([j \in 1..Len(A[i]) |-> FromInt(A[i][j])])])

\* the normal equations (C^T C | C^T b) of C u = b, C the columns piv of A
NormalEquations(A, b, piv) ==
    Eval([i \in 1..Len(piv) |-> Eval([j \in 1..Len(piv) |->
        FromInt(ISum([k \in 1..Len(A) |-> A[k][piv[i]] * A[k][piv[j]]]))]
        \o <<RSum([k \in 1..Len(A) |-> RMul(FromInt(A[k][piv[i]]), b[k])])>>)])

\* (F F^T | u) for the first Len(u) rows F of R
Gram(R, n, u) ==
    Eval([i \in 1..Len(u) |-> Eval([j \in 1..Len(u) |->
        RSum([k \in 1..n |-> RMul(R[i][k], R[j][k])])] \o <<u[i]>>)])

\* F^T w
Combine(R, n, w) == Eval([j \in 1..n |-> RSum([i \in 1..Len(w) |-> RMul(R[i][j], w[i])])])

MinNormOf(R, n, u) == Combine(R, n, LastColumn(Rref(Gram(R, n, u), 1, 1, Len(u))))

LeastSquares(A, b, piv) == LastColumn(Rref(NormalEquations(A, b, piv), 1, 1, Len(piv)))

MinNormFrom(A, b, n, R) == MinNormOf(R, n, LeastSquares(A, b, Pivots(R, 1, n)))

\* The minimum-norm least-squares solution x of A x = b (A: an m x n matrix
\* of integers, b: m rationals, n >= 1, m >= 1): x = pinv(A) b.  With C
\* the independent columns of A that elimination finds and F the non-zero
\* rows of the eliminated matrix, A = C F; the least-squares solutions are
\* the solutions of F x = u for the u with (C^T C) u = C^T b, and the one
\* of minimum norm is F^T w for the w with (F F^T) w = u.
MinNormSolve(A, b, n) == MinNormFrom(A, b, n, Rref(RatMatrix(A), 1, 1, n))

-----------------------------------------------------------------------------
(* Interferograms: records [master, slave, nrows, ncols, x_size, y_size,   *)
(* phase_data], phase_data a 2-D array (a sequence of nrows rows of ncols  *)
(* values).                                                                *)

num_cells(ifg) == ifg.nrows * ifg.ncols
shape(ifg) == <<ifg.nrows, ifg.ncols>>

\* the reshape in Fortran order (column-major)
reshape1_fortran(A, n) == [k \in 1..n |-> A[((k - 1) % Len(A)) + 1][((k - 1) \div Len(A)) + 1]]

\* numpy's reshape of a 2-D array to a vector of n entries (C order: row-major)
reshape1(A, n) == [k \in 1..n |-> A[((k - 1) \div Len(A[1])) + 1][((k - 1) % Len(A[1])) + 1]]

\* numpy's reshape of a vector to the 2-D shape shp (C order)
reshape2(v, shp) == [r \in 1..shp[1] |-> [c \in 1..shp[2] |-> v[(r - 1) * shp[2] + c]]]

\* numpy's meshgrid(range(ncols), range(nrows)): two arrays of nrows x ncols
meshgridX(ncols, nrows) == [r \in 1..nrows |-> [c \in 1..ncols |-> c - 1]]
meshgridY(ncols, nrows) == [r \in 1..nrows |-> [c \in 1..ncols |-> r - 1]]

get_num_params(deg, off) ==
    (IF deg = PLANAR THEN 2 ELSE IF deg = QUADRATIC THEN 5 ELSE 6)
    + (IF off = TRUE THEN 1 ELSE 0)

\* the columns get_design_matrix writes for a pixel at distances x, y
DesignRow(deg, x, y) ==
    IF deg = PLANAR THEN <<x, y>>
    ELSE IF deg = QUADRATIC THEN <<x * x, y * y, x * y, x, y>>
    ELSE <<x * y * y, x * x, y * y, x * y, x, y>>

\* get_design_matrix with the offset column written first
get_design_matrix_offset_first(ifg, deg, off) ==
    LET x == reshape1(meshgridX(ifg.ncols, ifg.nrows), num_cells(ifg))
        y == reshape1(meshgridY(ifg.ncols, ifg.nrows), num_cells(ifg))
    IN  Eval([k \in 1..num_cells(ifg) |->
            (IF off = TRUE THEN <<1>> ELSE <<>>)
            \o DesignRow(deg, x[k] * ifg.x_size, y[k] * ifg.y_size)])

\* get_design_matrix for a degree of PLANAR, QUADRATIC or PART_CUBIC
get_design_matrix(ifg, deg, off) ==
    LET x == reshape1(meshgridX(ifg.ncols, ifg.nrows), num_cells(ifg))
        y == reshape1(meshgridY(ifg.ncols, ifg.nrows), num_cells(ifg))
    IN  Eval([k \in 1..num_cells(ifg) |->
            DesignRow(deg, x[k] * ifg.x_size, y[k] * ifg.y_size)
            \o (IF off = TRUE THEN <<1>> ELSE <<>>)])

\* get_design_matrix for any other degree: no branch writes the polynomial
\* columns, which keep what numpy's empty() left there (junk)
UninitDesignMatrix(ifg, deg, off, junk) ==
    [k \in 1..num_cells(ifg) |->
        [j \in 1..get_num_params(deg, off) |->
            IF off = TRUE /\ j = get_num_params(deg, off) THEN 1 ELSE junk]]

-----------------------------------------------------------------------------
(* Epoch bookkeeping (module algorithm)                                    *)

\* all master dates, then all slave dates
get_all_epochs(fs) ==
    [i \in 1..Len(fs) |-> fs[i].master] \o [i \in 1..Len(fs) |-> fs[i].slave]

get_epoch_count(fs) ==
    Cardinality({get_all_epochs(fs)[i] : i \in 1..2 * Len(fs)})

\* the dates in the order they are first seen
RECURSIVE FirstSeen(_)
FirstSeen(dates) ==
    IF dates = <<>> THEN <<>>
    ELSE LET front == FirstSeen(SubSeq(dates, 1, Len(dates) - 1))
             d == dates[Len(dates)]
         IN IF \E i \in 1..Len(front) : front[i] = d THEN front ELSE Append(front, d)

\* the dict date -> index, the indices 0, 1, ... given in first-seen order
master_slave_ids(dates) ==
    LET seen == FirstSeen(dates)
    IN  [d \in {dates[i] : i \in 1..Len(dates)} |->
            (CHOOSE i \in 1..Len(seen) : seen[i] = d) - 1]

-----------------------------------------------------------------------------
(* get_network_design_matrix                                               *)

NoError == "none"
Raised(e) == [err |-> e, val |-> <<>>]
Returned(v) == [err |-> NoError, val |-> v]

zeros(nr, nc) == [r \in 1..nr |-> [c \in 1..nc |-> 0]]

Min(a, b) == IF a < b THEN a ELSE b

\* WriteBlock with the signs of master and slave exchanged
WriteBlock_signs(ndm, fs, i, ids, ncoef, offset_col, tmp, off) ==
    LET ifg == fs[i]
        lo == Min((i - 1) * num_cells(ifg), Len(ndm))
        hi == Min((i - 1) * num_cells(ifg) + num_cells(ifg), Len(ndm))
        m == ids[ifg.master] * ncoef
        s == ids[ifg.slave] * ncoef
        src(r) == IF Len(tmp) = 1 THEN 1 ELSE r - lo
    IN  IF hi - lo # Len(tmp) /\ Len(tmp) # 1 THEN Raised("ValueError")
        ELSE Returned(
            [r \in 1..Len(ndm) |->
                IF r <= lo \/ r > hi THEN ndm[r]
                ELSE [c \in 1..Len(ndm[r]) |->
                        IF off /\ c = offset_col + i THEN 1
                        ELSE IF c > s /\ c <= s + ncoef THEN -tmp[src(r)][c - s]
                        ELSE IF c > m /\ c <= m + ncoef THEN tmp[src(r)][c - m]
                        ELSE ndm[r][c]]])

\* One pass of the loop of lines 228-236 for the i-th interferogram (i from
\* 1), on the matrix ndm: the slice of rows rs .. rs + num_cells is clipped
\* to the matrix as numpy clips it, and tmp is broadcast to it: that raises
\* ValueError unless the slice has as many rows as tmp, or tmp has one row.
WriteBlock(ndm, fs, i, ids, ncoef, offset_col, tmp, off) ==
    LET ifg == fs[i]
        lo == Min((i - 1) * num_cells(ifg), Len(ndm))
        hi == Min((i - 1) * num_cells(ifg) + num_cells(ifg), Len(ndm))
        m == ids[ifg.master] * ncoef
        s == ids[ifg.slave] * ncoef
        src(r) == IF Len(tmp) = 1 THEN 1 ELSE r - lo
    IN  IF hi - lo # Len(tmp) /\ Len(tmp) # 1 THEN Raised("ValueError")
        ELSE Returned(
            [r \in 1..Len(ndm) |->
                IF r <= lo \/ r > hi THEN ndm[r]
                ELSE [c \in 1..Len(ndm[r]) |->
                        IF off /\ c = offset_col + i THEN 1
                        ELSE IF c > s /\ c <= s + ncoef THEN tmp[src(r)][c - s]
                        ELSE IF c > m /\ c <= m + ncoef THEN -tmp[src(r)][c - m]
                        ELSE ndm[r][c]]])

RECURSIVE WriteBlocks(_, _, _, _, _, _, _, _)
WriteBlocks(ndm, fs, i, ids, ncoef, offset_col, tmp, off) ==
    IF i > Len(fs) THEN Returned(ndm)
    ELSE LET w == WriteBlock(ndm, fs, i, ids, ncoef, offset_col, tmp, off)
         IN IF w.err # NoError THEN w
            ELSE WriteBlocks(Eval(w.val), fs, i + 1, ids, ncoef, offset_col, tmp, off)

\* network_shape with the offset counted among the coefficients of an epoch
network_shape_offset(fs, deg, off) ==
    <<num_cells(fs[1]) * Len(fs),
      get_num_params(deg, off) * get_epoch_count(fs) + (IF off THEN Len(fs) ELSE 0)>>

\* lines 213-218: the shape of the network design matrix
network_shape(fs, deg, off) ==
    <<num_cells(fs[1]) * Len(fs),
      get_num_params(deg, FALSE) * get_epoch_count(fs) + (IF off THEN Len(fs) ELSE 0)>>

\* the degree test of line 205 as a range check that lets 4 through
network_degree_in_range(deg) == deg \in PLANAR..(PART_CUBIC + 1)

\* line 205
valid_network_degree(deg) == deg \in {PLANAR, QUADRATIC, PART_CUBIC}

\* the test of line 209 asking for two interferograms
too_few_ifgs_for_pair(nifgs) == nifgs < 2

\* line 209
too_few_ifgs(nifgs) == nifgs < 1

get_network_design_matrix(fs, deg, off) ==
    IF ~valid_network_degree(deg) THEN Raised("OrbitalError")
    ELSE IF too_few_ifgs(Len(fs)) THEN Raised("OrbitalError")
    ELSE LET nifgs == Len(fs)
             nepochs == get_epoch_count(fs)
             ncoef == get_num_params(deg, FALSE)
             nr == network_shape(fs, deg, off)[1]
             nc == network_shape(fs, deg, off)[2]
             dates == [i \in 1..nifgs |-> fs[i].master] \o [i \in 1..nifgs |-> fs[i].slave]
             ids == master_slave_ids(dates)
             tmp == get_design_matrix(fs[1], deg, FALSE)
         IN  WriteBlocks(zeros(nr, nc), fs, 1, ids, ncoef, nepochs * ncoef, tmp, off)

-----------------------------------------------------------------------------
(* Array arithmetic                                                        *)

\* The installed numpy/scipy decide what a solve of a system without rows
\* does: the releases of the time of the source raise, later ones return
\* the zero vector.
Libs == {"old", "new"}

\* a -= b for 2-D arrays, b broadcast to the shape of a
Broadcastable(bshape, ashape) ==
    /\ bshape[1] = ashape[1] \/ bshape[1] = 1
    /\ bshape[2] = ashape[2] \/ bshape[2] = 1

\* ISub taking a pixel without phase for zero
ISub_nodata_as_zero(a, b) ==
    [r \in 1..Len(a) |-> [c \in 1..Len(a[r]) |->
        RSub(IF isnan(a[r][c]) THEN Zero ELSE a[r][c],
             b[IF Len(b) = 1 THEN 1 ELSE r][IF Len(b[1]) = 1 THEN 1 ELSE c])]]

ISub(a, b) ==
    [r \in 1..Len(a) |-> [c \in 1..Len(a[r]) |->
        RSub(a[r][c], b[IF Len(b) = 1 THEN 1 ELSE r][IF Len(b[1]) = 1 THEN 1 ELSE c])]]

ShapeOf(a) == <<Len(a), IF Len(a) = 0 THEN 0 ELSE Len(a[1])>>

AddScalar(a, v) == [r \in 1..Len(a) |-> [c \in 1..Len(a[r]) |-> RAdd(a[r][c], v)]]

\* insertion of v into the sorted sequence s
RECURSIVE Insert(_, _)
Insert(s, v) ==
    IF s = <<>> THEN <<v>>
    ELSE IF RLess(v, s[1]) THEN <<v>> \o s
    ELSE <<s[1]>> \o Insert(Tail(s), v)

RECURSIVE Sort(_)
Sort(s) == IF s = <<>> THEN <<>> ELSE Insert(Sort(Tail(s)), s[1])

\* numpy's median of a vector without NaN; NaN for the empty vector
median(s) ==
    LET t == Sort(s)
        n == Len(t)
    IN  IF n = 0 THEN NaN
        ELSE IF n % 2 = 1 THEN t[(n + 1) \div 2]
        ELSE RDiv(RAdd(t[n \div 2], t[n \div 2 + 1]), FromInt(2))

\* no row filtered out
NotNaN_none_filtered(v) == [k \in 1..Len(v) |-> TRUE]

\* ~isnan(vphase), lines 107-108 and 134-135
NotNaN(v) == [k \in 1..Len(v) |-> ~isnan(v[k])]

\* the solve of lines 109 and 136 on the filtered system tmp x = fd with n unknowns
Solve(tmp, fd, n, lib) ==
    IF Len(tmp) = 0
    THEN IF lib = "old" THEN [err |-> "LinAlgError", val |-> <<>>]
         ELSE Returned([k \in 1..n |-> Zero])
    ELSE Returned(MinNormSolve(tmp, fd, n))

-----------------------------------------------------------------------------
(* _independent_correction                                                 *)

\* lines 112-113: [err, val, orb, coef]: val the interferogram after the
\* call, orb the surface subtracted, coef the fitted model
independent_subtract(ifg, mdl, correction) ==
    [err |-> NoError,
     val |-> [ifg EXCEPT !.phase_data = ISub(ifg.phase_data, correction)],
     orb |-> correction,
     coef |-> mdl]

\* lines 107-112
independent_fit(ifg, vphase, dm, mdl) ==
    IF mdl.err # NoError THEN [err |-> mdl.err, val |-> ifg, orb |-> <<>>, coef |-> <<>>]
    ELSE independent_subtract(ifg, mdl.val,
                              Eval(reshape2(dot(dm, mdl.val), ShapeOf(ifg.phase_data))))

\* lines 102-109
independent_model(ifg, deg, off, lib, vphase, dm) ==
    independent_fit(ifg, vphase, dm,
                    Solve(Compress(dm, NotNaN(vphase)), Compress(vphase, NotNaN(vphase)),
                          get_num_params(deg, off), lib))

independent_correction(ifg, deg, off, lib) ==
    independent_model(ifg, deg, off, lib,
                      reshape1(ifg.phase_data, num_cells(ifg)),
                      get_design_matrix(ifg, deg, off))

-----------------------------------------------------------------------------
(* _network_correction                                                     *)

RECURSIVE Concat(_)
Concat(ss) == IF ss = <<>> THEN <<>> ELSE ss[1] \o Concat(Tail(ss))

\* lines 128-136: the solution of the NaN-filtered network system, [err, val].
\* src is the collection the observations come from (m_ifgs when given).
\* vstack raises on an empty list; squeeze turns a vector of one entry
\* into a 0-d array, and then pinv (old) or the dot of line 146 (new) raises.
network_model(src, deg, off, lib) ==
    IF Len(src) = 0 THEN Raised("ValueError")
    ELSE LET vphase == Concat([i \in 1..Len(src) |->
                           reshape1(src[i].phase_data, num_cells(src[i]))])
             dm == get_network_design_matrix(src, deg, off)
         IN  IF dm.err # NoError THEN dm
             ELSE IF Len(vphase) = 1
             THEN Raised(IF lib = "old" THEN "LinAlgError" ELSE "ValueError")
             ELSE IF Len(vphase) # Len(dm.val) THEN Raised("IndexError")
             ELSE Solve(Compress(dm.val, NotNaN(vphase)),
                        Compress(vphase, NotNaN(vphase)), Len(dm.val[1]), lib)

\* coefs with the runs starting one entry after the other
coefs_stride_one(fs, deg, mdl, k) ==
    LET ncoef == get_num_params(deg, FALSE)
    IN  SubSeq(mdl, k + 1, Min(k + ncoef, Len(mdl)))

\* line 140: the list coefs, as a function of the index k >= 0 (slices clip)
coefs(fs, deg, mdl, k) ==
    LET ncoef == get_num_params(deg, FALSE)
    IN  SubSeq(mdl, k * ncoef + 1, Min(k * ncoef + ncoef, Len(mdl)))

\* a - b for two vectors under numpy's broadcasting, [err, val]
VSub(a, b) ==
    IF Len(a) = Len(b) THEN Returned([j \in 1..Len(a) |-> RSub(a[j], b[j])])
    ELSE IF Len(a) = 1 THEN Returned([j \in 1..Len(b) |-> RSub(a[1], b[j])])
    ELSE IF Len(b) = 1 THEN Returned([j \in 1..Len(a) |-> RSub(a[j], b[1])])
    ELSE Raised("ValueError")

\* network_orb with master and slave exchanged
network_orb_exchanged(fs, deg, mdl, ifg) ==
    LET ids == master_slave_ids(get_all_epochs(fs))
        dm == get_design_matrix(fs[1], deg, FALSE)
        d == VSub(coefs(fs, deg, mdl, ids[ifg.master]), coefs(fs, deg, mdl, ids[ifg.slave]))
    IN  IF d.err # NoError THEN d
        ELSE IF Len(d.val) # Len(dm[1]) THEN Raised("ValueError")
        ELSE Returned(reshape2(dot(dm, d.val), shape(fs[1])))

\* lines 143, 146-147: the surface orb of interferogram ifg, [err, val]
network_orb(fs, deg, mdl, ifg) ==
    LET ids == master_slave_ids(get_all_epochs(fs))
        dm == get_design_matrix(fs[1], deg, FALSE)
        d == VSub(coefs(fs, deg, mdl, ids[ifg.slave]), coefs(fs, deg, mdl, ids[ifg.master]))
    IN  IF d.err # NoError THEN d
        ELSE IF Len(d.val) # Len(dm[1]) THEN Raised("ValueError")
        ELSE Returned(reshape2(dot(dm, d.val), shape(fs[1])))

\* the mean of a vector without NaN; NaN for the empty vector
mean(s) == RDiv(RSum(s), FromInt(Len(s)))

\* network_subtract with the mean of the residual for its median
network_subtract_mean(ifg, orb, off) ==
    IF ~Broadcastable(ShapeOf(orb), ShapeOf(ifg.phase_data))
    THEN [err |-> "ValueError", val |-> ifg, med |-> Zero]
    ELSE IF off
    THEN LET tmp == ISub(ifg.phase_data, orb)
             v == reshape1(tmp, Len(tmp) * Len(tmp[1]))
             med == mean(Compress(v, NotNaN(v)))
         IN  [err |-> NoError,
              val |-> [ifg EXCEPT !.phase_data = ISub(ifg.phase_data, AddScalar(orb, med))],
              med |-> med]
    ELSE [err |-> NoError,
          val |-> [ifg EXCEPT !.phase_data = ISub(ifg.phase_data, orb)],
          med |-> Zero]

\* lines 150-154: [err, val, med]: val the interferogram after the
\* subtraction of orb, med the scalar subtracted with it
network_subtract(ifg, orb, off) ==
    IF ~Broadcastable(ShapeOf(orb), ShapeOf(ifg.phase_data))
    THEN [err |-> "ValueError", val |-> ifg, med |-> Zero]
    ELSE IF off
    THEN LET tmp == ISub(ifg.phase_data, orb)
             v == reshape1(tmp, Len(tmp) * Len(tmp[1]))
             med == median(Compress(v, NotNaN(v)))
         IN  [err |-> NoError,
              val |-> [ifg EXCEPT !.phase_data = ISub(ifg.phase_data, AddScalar(orb, med))],
              med |-> med]
    ELSE [err |-> NoError,
          val |-> [ifg EXCEPT !.phase_data = ISub(ifg.phase_data, orb)],
          med |-> Zero]

-----------------------------------------------------------------------------
(* orbital_correction                                                      *)

NoneArg == -100   \* stands for None, a value equal to no degree and no method

\* _validate_mlooked (lines 71-81): the error raised, or NoError
validate_mlooked(ml, fs) ==
    IF Len(ml) # Len(fs) THEN "OrbitalError"
    ELSE IF \E i \in 1..Len(ml) : ~ml[i].has_phase_data THEN "OrbitalError"
    ELSE NoError

\* no pixel of the collection has a value, or there is one pixel in all
AllNaN(fs) ==
    \/ \A i \in 1..Len(fs) : \A r \in 1..fs[i].nrows : \A c \in 1..fs[i].ncols :
            isnan(fs[i].phase_data[r][c])
    \/ Len(fs) = 1 /\ num_cells(fs[1]) = 1

\* the libraries whose outcomes have to be told apart: they differ only on
\* a system without rows and on a vector squeezed to 0-d
LibsThatDiffer(degenerate) == IF degenerate THEN Libs ELSE {"new"}

\* line 48, with the out-of-range test a range check would make
degree_in_range(d) == d \in PLANAR..(PART_CUBIC + 1)

\* line 48
valid_degree(d) == d \in {PLANAR, QUADRATIC, PART_CUBIC}

\* line 52
valid_method(m) == m \in {INDEPENDENT_METHOD, NETWORK_METHOD}

raise(e) ==
    /\ pc' = "raised"
    /\ error' = e

\* lines 48-54
CheckArgs ==
    /\ call = "orbital_correction"
    /\ pc = "start"
    /\ IF ~valid_degree(degree) THEN raise("OrbitalError")
       ELSE IF ~valid_method(method) THEN raise("OrbitalError")
       ELSE pc' = "dispatch" /\ error' = error
    /\ UNCHANGED <<call, ifgs, degree, method, offset, mlooked, idx, model, orbs, result, ifgs0, tasks>>

\* lines 56-68, up to the first call of a correction
Dispatch ==
    /\ pc = "dispatch"
    /\ IF method = NETWORK_METHOD
       THEN IF ~mlooked.given THEN pc' = "network" /\ error' = error
            ELSE IF validate_mlooked(mlooked.items, ifgs) # NoError
                 THEN raise(validate_mlooked(mlooked.items, ifgs))
                 ELSE pc' = "network" /\ error' = error
       ELSE IF method = INDEPENDENT_METHOD THEN pc' = "ind_loop" /\ error' = error
       ELSE raise("OrbitalError")
    /\ idx' = 1
    /\ UNCHANGED <<call, ifgs, degree, method, offset, mlooked, model, orbs, result, ifgs0, tasks>>

\* IndependentStep fitting the first interferogram of the collection in every pass
IndependentStep_first_fit ==
    /\ pc = "ind_loop"
    /\ idx <= Len(ifgs)
    /\ \E lib \in LibsThatDiffer(AllNaN(<<ifgs[1]>>)) :
        LET r == independent_correction(ifgs[1], degree, offset, lib)
        IN  IF r.err # NoError
            THEN raise(r.err) /\ UNCHANGED <<ifgs, orbs, idx>>
            ELSE /\ ifgs' = [ifgs EXCEPT ![idx] =
                               [@ EXCEPT !.phase_data = ISub(@, r.orb)]]
                 /\ orbs' = [orbs EXCEPT ![idx] = [orb |-> r.orb, med |-> Zero, coef |-> r.coef]]
                 /\ idx' = idx + 1
                 /\ UNCHANGED <<pc, error>>
    /\ UNCHANGED <<call, degree, method, offset, mlooked, model, result, ifgs0, tasks>>

\* IndependentStep giving every interferogram its input back when a fit fails
IndependentStep_rollback ==
    /\ pc = "ind_loop"
    /\ idx <= Len(ifgs)
    /\ \E lib \in LibsThatDiffer(AllNaN(<<ifgs[idx]>>)) :
        LET r == independent_correction(ifgs[idx], degree, offset, lib)
        IN  IF r.err # NoError
            THEN raise(r.err) /\ ifgs' = ifgs0 /\ UNCHANGED <<orbs, idx>>
            ELSE /\ ifgs' = [ifgs EXCEPT ![idx] = r.val]
                 /\ orbs' = [orbs EXCEPT ![idx] = [orb |-> r.orb, med |-> Zero, coef |-> r.coef]]
                 /\ idx' = idx + 1
                 /\ UNCHANGED <<pc, error>>
    /\ UNCHANGED <<call, degree, method, offset, mlooked, model, result, ifgs0, tasks>>

\* line 65: one pass of the loop of the independent method
IndependentStep ==
    /\ pc = "ind_loop"
    /\ idx <= Len(ifgs)
    /\ \E lib \in LibsThatDiffer(AllNaN(<<ifgs[idx]>>)) :
        LET r == independent_correction(ifgs[idx], degree, offset, lib)
        IN  IF r.err # NoError
            THEN raise(r.err) /\ UNCHANGED <<ifgs, orbs, idx>>
            ELSE /\ ifgs' = [ifgs EXCEPT ![idx] = r.val]
                 /\ orbs' = [orbs EXCEPT ![idx] = [orb |-> r.orb, med |-> Zero, coef |-> r.coef]]
                 /\ idx' = idx + 1
                 /\ UNCHANGED <<pc, error>>
    /\ UNCHANGED <<call, degree, method, offset, mlooked, model, result, ifgs0, tasks>>

\* A caller that runs _independent_correction itself, one task per
\* interferogram, the tasks interleaved in any order.
\* lines 102-112 in task i: the fit and the surface
TaskFit(i) ==
    /\ call = "independent_tasks"
    /\ tasks[i] = "idle"
    /\ \E lib \in LibsThatDiffer(AllNaN(<<ifgs[i]>>)) :
        LET r == independent_correction(ifgs[i], degree, offset, lib)
        IN  IF r.err # NoError
            THEN /\ tasks' = [tasks EXCEPT ![i] = "failed"]
                 /\ error' = r.err
                 /\ UNCHANGED orbs
            ELSE /\ tasks' = [tasks EXCEPT ![i] = "fitted"]
                 /\ orbs' = [orbs EXCEPT ![i] = [orb |-> r.orb, med |-> Zero, coef |-> r.coef]]
                 /\ UNCHANGED error
    /\ UNCHANGED <<call, ifgs, degree, method, offset, mlooked, pc, idx, model, result, ifgs0>>

\* line 113 in task i
TaskSubtract(i) ==
    /\ call = "independent_tasks"
    /\ tasks[i] = "fitted"
    /\ ifgs' = [ifgs EXCEPT ![i] = [@ EXCEPT !.phase_data = ISub(@, orbs[i].orb)]]
    /\ tasks' = [tasks EXCEPT ![i] = "done"]
    /\ UNCHANGED <<call, degree, method, offset, mlooked, pc, error, idx, model, orbs, result, ifgs0>>

\* NetworkSolve taking the observations from ifgs whatever m_ifgs is
NetworkSolve_full_resolution ==
    /\ pc = "network"
    /\ \E lib \in LibsThatDiffer(AllNaN(ifgs)) :
        LET r == network_model(ifgs, degree, offset, lib)
        IN  IF r.err # NoError
            THEN raise(r.err) /\ UNCHANGED model
            ELSE pc' = "net_loop" /\ model' = r.val /\ error' = error
    /\ UNCHANGED <<call, ifgs, degree, method, offset, mlooked, idx, orbs, result, ifgs0, tasks>>

\* lines 127-143 of _network_correction: the solve
NetworkSolve ==
    /\ pc = "network"
    /\ \E lib \in LibsThatDiffer(AllNaN(IF mlooked.given THEN mlooked.items ELSE ifgs)) :
        LET r == network_model(IF mlooked.given THEN mlooked.items ELSE ifgs,
                               degree, offset, lib)
        IN  IF r.err # NoError
            THEN raise(r.err) /\ UNCHANGED model
            ELSE pc' = "net_loop" /\ model' = r.val /\ error' = error
    /\ UNCHANGED <<call, ifgs, degree, method, offset, mlooked, idx, orbs, result, ifgs0, tasks>>

\* lines 145-154: one pass of the loop of _network_correction
NetworkApply ==
    /\ pc = "net_loop"
    /\ idx <= Len(ifgs)
    /\ LET o == network_orb(ifgs, degree, model, ifgs[idx])
           r == network_subtract(ifgs[idx], o.val, offset)
       IN  IF o.err # NoError THEN raise(o.err) /\ UNCHANGED <<ifgs, orbs, idx>>
           ELSE IF r.err # NoError THEN raise(r.err) /\ UNCHANGED <<ifgs, orbs, idx>>
           ELSE /\ ifgs' = [ifgs EXCEPT ![idx] = r.val]
                /\ orbs' = [orbs EXCEPT ![idx] = [orb |-> o.val, med |-> r.med, coef |-> model]]
                /\ idx' = idx + 1
                /\ UNCHANGED <<pc, error>>
    /\ UNCHANGED <<call, degree, method, offset, mlooked, model, result, ifgs0, tasks>>

\* the loop is over: orbital_correction returns
Return ==
    /\ pc \in {"ind_loop", "net_loop"}
    /\ idx > Len(ifgs)
    /\ pc' = "done"
    /\ UNCHANGED <<call, ifgs, degree, method, offset, mlooked, error, idx, model, orbs, result, ifgs0, tasks>>

\* get_design_matrix called on its own
CallDesignMatrix ==
    /\ call = "get_design_matrix"
    /\ pc = "start"
    /\ IF degree \in {PLANAR, QUADRATIC, PART_CUBIC}
       THEN result' = Returned(get_design_matrix(ifgs[1], degree, offset))
       ELSE \E junk \in {0, 1} :
               result' = Returned(UninitDesignMatrix(ifgs[1], degree, offset, junk))
    /\ pc' = "done"
    /\ UNCHANGED <<call, ifgs, degree, method, offset, mlooked, error, idx, model, orbs, ifgs0, tasks>>

\* get_network_design_matrix called on its own
CallNetworkDesignMatrix ==
    /\ call = "get_network_design_matrix"
    /\ pc = "start"
    /\ LET r == get_network_design_matrix(ifgs, degree, offset)
       IN  /\ result' = r
           /\ pc' = IF r.err = NoError THEN "done" ELSE "raised"
           /\ error' = r.err
    /\ UNCHANGED <<call, ifgs, degree, method, offset, mlooked, idx, model, orbs, ifgs0, tasks>>

-----------------------------------------------------------------------------
(* The inputs                                                              *)

ArgValues == {NoneArg} \cup (-1..4)
Degrees == {PLANAR, QUADRATIC, PART_CUBIC}

Geometries ==
    [nrows : 1..MaxRows, ncols : 1..MaxCols, x_size : 1..MaxCellSize, y_size : 1..MaxCellSize]

\* an interferogram is between two different epochs
Pairs == {p \in (1..MaxEpochs) \X (1..MaxEpochs) : p[1] # p[2]}

PhaseValues == {NaN} \cup {FromInt(v) : v \in 0..MaxPhase}

\* every phase array of the geometry g
PhaseArrays(g) == [1..g.nrows -> [1..g.ncols -> PhaseValues]]

\* the phase arrays whose rows are all the same
RowArrays(g) == {a \in PhaseArrays(g) : \A r \in 1..g.nrows : a[r] = a[1]}

Ifg(p, g, a) ==
    [master |-> p[1], slave |-> p[2], nrows |-> g.nrows, ncols |-> g.ncols,
     x_size |-> g.x_size, y_size |-> g.y_size, phase_data |-> a]

\* the collections of lo..hi interferograms of one geometry g of the domain
\* of arrays, their phase arrays among arrays[g], their epoch pairs among pairs
Collections(lo, hi, pairs, arrays) ==
    UNION {[1..n -> {Ifg(p, g, a) : p \in pairs, a \in arrays[g]}] :
               n \in lo..hi, g \in DOMAIN arrays}

NoArrays(g) == {<<>>}

NoMlooked == [given |-> FALSE, items |-> <<>>]

InitCommon ==
    /\ pc = "start"
    /\ error = NoError
    /\ idx = 0
    /\ model = <<>>
    /\ orbs = [i \in 1..Len(ifgs) |-> [orb |-> <<>>, med |-> Zero, coef |-> <<>>]]
    /\ result = Returned(<<>>)
    /\ ifgs0 = ifgs
    /\ tasks = [i \in 1..Len(ifgs) |-> "idle"]

-----------------------------------------------------------------------------
(* get_design_matrix on every geometry *)

InitDM ==
    /\ call = "get_design_matrix"
    /\ ifgs \in Collections(1, 1, {<<1, 2>>}, [g \in Geometries |-> NoArrays(g)])
    /\ degree \in Degrees
    /\ method = NoneArg
    /\ offset \in BOOLEAN
    /\ mlooked = NoMlooked
    /\ InitCommon

NextDM == CallDesignMatrix

SpecDM == InitDM /\ [][NextDM]_vars

(* get_network_design_matrix on every collection of one geometry *)

InitNDM ==
    /\ call = "get_network_design_matrix"
    /\ ifgs \in Collections(1, MaxIfgs, Pairs, [g \in Geometries |-> NoArrays(g)])
    /\ degree \in Degrees
    /\ method = NoneArg
    /\ offset \in BOOLEAN
    /\ mlooked = NoMlooked
    /\ InitCommon

NextNDM == CallNetworkDesignMatrix

SpecNDM == InitNDM /\ [][NextNDM]_vars

(* orbital_correction, independent method, one interferogram, every phase array *)

InitIndependent ==
    /\ call = "orbital_correction"
    /\ ifgs \in Collections(1, 1, {<<1, 2>>}, [g \in Geometries |-> PhaseArrays(g)])
    /\ degree \in Degrees
    /\ method = INDEPENDENT_METHOD
    /\ offset \in BOOLEAN
    /\ mlooked = NoMlooked
    /\ InitCommon

NextIndependent == CheckArgs \/ Dispatch \/ IndependentStep \/ Return

SpecIndependent == InitIndependent /\ [][NextIndependent]_vars

(* orbital_correction, network method: one interferogram with every phase  *)
(* array, or several interferograms of the largest shape whose rows are    *)
(* all the same                                                            *)

EarlierPairs == {p \in Pairs : p[1] < p[2]}

NetGeometries == {g \in Geometries : g.x_size = 1 /\ g.y_size = MaxCellSize}

\* one row of one pixel more than MaxCols
WideRow == [nrows |-> 1, ncols |-> MaxCols + 1, x_size |-> 1, y_size |-> 1]

\* one interferogram of every shape with every phase array, or several of
\* the largest shape, the first between the epochs 1 and 2
NetCollections ==
    Collections(1, 1, {<<1, 2>>}, [g \in NetGeometries \cup {WideRow} |-> PhaseArrays(g)])
    \cup {c \in Collections(2, MaxIfgs, EarlierPairs,
                            [g \in {h \in NetGeometries : h.nrows = MaxRows /\ h.ncols = MaxCols}
                                |-> RowArrays(g)]) : c[1].master = 1 /\ c[1].slave = 2}

InitNetwork ==
    /\ call = "orbital_correction"
    /\ ifgs \in NetCollections
    /\ degree \in Degrees
    /\ method = NETWORK_METHOD
    /\ offset \in BOOLEAN
    /\ mlooked = NoMlooked
    /\ InitCommon

NextNetwork == CheckArgs \/ Dispatch \/ NetworkSolve \/ NetworkApply \/ Return

SpecNetwork == InitNetwork /\ [][NextNetwork]_vars

(* the two matrix-building functions with every degree from -5 to 5 or     *)
(* None, get_network_design_matrix also on the empty collection            *)

DegreeArgs == {NoneArg} \cup (-5..5)

UnitGeometries == {g \in Geometries : g.x_size = 1 /\ g.y_size = 1}

InitMatrixArgs ==
    /\ call \in {"get_design_matrix", "get_network_design_matrix"}
    /\ ifgs \in Collections(0, MaxIfgs, Pairs, [g \in UnitGeometries |-> NoArrays(g)])
    /\ call = "get_design_matrix" => Len(ifgs) = 1
    /\ degree \in DegreeArgs
    /\ method = NoneArg
    /\ offset \in BOOLEAN
    /\ mlooked = NoMlooked
    /\ InitCommon

NextMatrixArgs == CallDesignMatrix \/ CallNetworkDesignMatrix

SpecMatrixArgs == InitMatrixArgs /\ [][NextMatrixArgs]_vars

(* get_network_design_matrix on two interferograms, each of any geometry   *)

InitMixed ==
    /\ call = "get_network_design_matrix"
    /\ ifgs \in [1..2 -> {Ifg(p, g, <<>>) : p \in EarlierPairs, g \in UnitGeometries}]
    /\ degree \in Degrees
    /\ method = NoneArg
    /\ offset \in BOOLEAN
    /\ mlooked = NoMlooked
    /\ InitCommon

SpecMixed == InitMixed /\ [][NextNDM]_vars

(* orbital_correction with every value of its arguments, on collections of  *)
(* interferograms of one row                                               *)

\* the multilooked collections given with fs: none, one copy per
\* interferogram, one item less, one item more, an item without phase_data
Multilooked(fs) ==
    LET item(i) == [master |-> fs[i].master, slave |-> fs[i].slave,
                    nrows |-> fs[i].nrows, ncols |-> fs[i].ncols,
                    x_size |-> fs[i].x_size, y_size |-> fs[i].y_size,
                    phase_data |-> fs[i].phase_data, has_phase_data |-> TRUE]
        copies == [i \in 1..Len(fs) |-> item(i)]
    IN  {NoMlooked,
         [given |-> TRUE, items |-> copies],
         [given |-> TRUE, items |-> SubSeq(copies, 1, Len(fs) - 1)],
         [given |-> TRUE, items |-> Append(copies, item(1))],
         [given |-> TRUE,
          items |-> [copies EXCEPT ![Len(fs)] = [@ EXCEPT !.has_phase_data = FALSE,
                                                          !.phase_data = <<>>]]]}

OneRow == {g \in Geometries : g.nrows = 1 /\ g.ncols = MaxCols /\ g.x_size = 1 /\ g.y_size = 1}

Init ==
    /\ call = "orbital_correction"
    /\ ifgs \in Collections(1, MaxIfgs, {<<1, 2>>}, [g \in OneRow |-> PhaseArrays(g)])
    /\ degree \in ArgValues
    /\ method \in ArgValues
    /\ offset \in BOOLEAN
    /\ mlooked \in Multilooked(ifgs)
    /\ InitCommon

Next == CheckArgs \/ Dispatch \/ IndependentStep \/ NetworkSolve \/ NetworkApply \/ Return

Spec == Init /\ [][Next]_vars

(* The independent method on up to MaxTasks interferograms of one row: the *)
(* loop of orbital_correction, or one task per interferogram               *)

MaxTasks == 3

\* no phase, a slope, one pixel with a phase, a constant
TaskArrays(g) ==
    {[r \in 1..g.nrows |-> [c \in 1..g.ncols |-> NaN]],
     [r \in 1..g.nrows |-> [c \in 1..g.ncols |-> IF c = 1 THEN Zero ELSE FromInt(1)]],
     [r \in 1..g.nrows |-> [c \in 1..g.ncols |-> IF c = 1 THEN FromInt(1) ELSE NaN]],
     [r \in 1..g.nrows |-> [c \in 1..g.ncols |-> FromInt(1)]]}

InitTasks ==
    /\ call \in {"orbital_correction", "independent_tasks"}
    /\ ifgs \in Collections(1, MaxTasks, {<<1, 2>>}, [g \in OneRow |-> TaskArrays(g)])
    /\ degree \in Degrees
    /\ method = INDEPENDENT_METHOD
    /\ offset \in BOOLEAN
    /\ mlooked = NoMlooked
    /\ InitCommon

NextTasks ==
    \/ NextIndependent
    \/ \E i \in 1..Len(ifgs) : TaskFit(i)
    \/ \E i \in 1..Len(ifgs) : TaskSubtract(i)

SpecTasks == InitTasks /\ [][NextTasks]_vars

(* orbital_correction, network method, with a multilooked collection that  *)
(* _validate_mlooked accepts: as many items as interferograms, each with   *)
(* a phase array, between any epochs                                       *)

\* the multilooked version of an interferogram of geometry g between the
\* epochs p, with the phase array a
MlookedIfg(p, g, a) ==
    [master |-> p[1], slave |-> p[2], nrows |-> g.nrows, ncols |-> g.ncols,
     x_size |-> g.x_size, y_size |-> g.y_size, phase_data |-> a, has_phase_data |-> TRUE]

\* a slope, one pixel with a phase
FullArrays(g) ==
    {[r \in 1..g.nrows |-> [c \in 1..g.ncols |-> IF c = 1 THEN Zero ELSE FromInt(1)]],
     [r \in 1..g.nrows |-> [c \in 1..g.ncols |-> IF c = 1 THEN FromInt(1) ELSE NaN]]}

\* a constant, the opposite slope
MlookedArrays(g) ==
    {[r \in 1..g.nrows |-> [c \in 1..g.ncols |-> FromInt(1)]],
     [r \in 1..g.nrows |-> [c \in 1..g.ncols |-> IF c = 1 THEN FromInt(1) ELSE Zero]]}

InitMlooked ==
    /\ call = "orbital_correction"
    /\ ifgs \in {c \in Collections(1, MaxIfgs, EarlierPairs, [g \in OneRow |-> FullArrays(g)]) :
                     c[1].master = 1 /\ c[1].slave = 2}
    /\ degree \in Degrees
    /\ method = NETWORK_METHOD
    /\ offset \in BOOLEAN
    /\ \E items \in [1..Len(ifgs) ->
                        {MlookedIfg(p, g, a) : p \in EarlierPairs, g \in OneRow,
                                               a \in UNION {MlookedArrays(h) : h \in OneRow}}] :
           mlooked = [given |-> TRUE, items |-> items]
    /\ InitCommon

SpecMlooked == InitMlooked /\ [][NextNetwork]_vars

(* orbital_correction, network method, PLANAR, no offset, on phase arrays   *)
(* that are the difference of one planar surface per epoch, some pixels    *)
(* without data                                                            *)

MaxCoef == 1

\* the planar surface of coefficients cf = <<a, b>> at the pixel (r, c) of geometry g
Surface(cf, g, r, c) == cf[1] * ((c - 1) * g.x_size) + cf[2] * ((r - 1) * g.y_size)

\* the interferogram between the epochs p of the surfaces cfs, without
\* data in the columns not in cols
SyntheticIfg(p, g, cfs, cols) ==
    Ifg(p, g, [r \in 1..g.nrows |-> [c \in 1..g.ncols |->
        IF c \in cols THEN FromInt(Surface(cfs[p[2]], g, r, c) - Surface(cfs[p[1]], g, r, c))
        ELSE NaN]])

InitRoundTrip ==
    /\ call = "orbital_correction"
    /\ \E g \in NetGeometries, cfs \in [1..MaxEpochs -> (0..MaxCoef) \X (0..MaxCoef)],
          n \in 1..MaxIfgs :
          \E ps \in [1..n -> EarlierPairs], cols \in [1..n -> SUBSET (1..g.ncols)] :
              /\ ps[1] = <<1, 2>>
              /\ n = 1 => cfs[3] = <<0, 0>>
              /\ ifgs = [i \in 1..n |-> SyntheticIfg(ps[i], g, cfs, cols[i])]
    /\ degree = PLANAR
    /\ method = NETWORK_METHOD
    /\ offset = FALSE
    /\ mlooked = NoMlooked
    /\ InitCommon

SpecRoundTrip == InitRoundTrip /\ [][NextNetwork]_vars

-----------------------------------------------------------------------------
(* Properties of get_design_matrix (SpecDM)                                *)

DMDone == call = "get_design_matrix" /\ pc = "done"

\* C7: row k (from 0) of the matrix get_design_matrix returns is the pixel
\* at row k div ncols and column k mod ncols, with x = column * x_size and
\* y = row * y_size, and its columns without the offset are [x, y],
\* [x^2, y^2, xy, x, y] or [xy^2, x^2, y^2, xy, x, y].
C7_RowOrderAndColumns ==
    DMDone =>
        LET ifg == ifgs[1]
            dm == result.val
        IN  /\ Len(dm) = ifg.nrows * ifg.ncols
            /\ \A k \in 0..(Len(dm) - 1) :
                LET x == (k % ifg.ncols) * ifg.x_size
                    y == (k \div ifg.ncols) * ifg.y_size
                    row == dm[k + 1]
                IN  /\ degree = PLANAR => SubSeq(row, 1, 2) = <<x, y>>
                    /\ degree = QUADRATIC => SubSeq(row, 1, 5) = <<x * x, y * y, x * y, x, y>>
                    /\ degree = PART_CUBIC =>
                           SubSeq(row, 1, 6) = <<x * y * y, x * x, y * y, x * y, x, y>>

\* a part-cubic matrix of a 2 x 2 interferogram with cells of 2 by 1: the
\* last pixel has x = 2 and y = 1
C7_Witness ==
    /\ DMDone
    /\ degree = PART_CUBIC
    /\ shape(ifgs[1]) = <<2, 2>> /\ ifgs[1].x_size = 2 /\ ifgs[1].y_size = 1
    /\ SubSeq(result.val[4], 1, 6) = <<2, 4, 1, 2, 2, 1>>
    /\ SubSeq(result.val[2], 1, 6) = <<0, 4, 0, 0, 2, 0>>

\* C8: with offset=True the matrix is the matrix of offset=False with one
\* more, last, column of ones; the column counts are 2, 5, 6 without and
\* 3, 6, 7 with the offset, as get_num_params returns them.
C8_OffsetColumn ==
    DMDone =>
        LET dm == result.val
            n == IF degree = PLANAR THEN 2 ELSE IF degree = QUADRATIC THEN 5 ELSE 6
            plain == get_design_matrix(ifgs[1], degree, FALSE)
        IN  /\ get_num_params(degree, FALSE) = n
            /\ get_num_params(degree, TRUE) = n + 1
            /\ Len(dm) = Len(plain)
            /\ \A k \in 1..Len(dm) :
                /\ Len(plain[k]) = n
                /\ Len(dm[k]) = get_num_params(degree, offset)
                /\ offset = TRUE => dm[k] = plain[k] \o <<1>>
                /\ offset = FALSE => dm[k] = plain[k]

C8_Witness ==
    /\ DMDone
    /\ degree = QUADRATIC /\ offset = TRUE
    /\ num_cells(ifgs[1]) = 4 /\ ifgs[1].x_size = 2
    /\ result.val[2] = <<4, 0, 0, 2, 0, 1>>

-----------------------------------------------------------------------------
(* Properties of get_network_design_matrix (SpecNDM)                       *)

NDMDone == call = "get_network_design_matrix" /\ pc = "done"

\* the index of the date d: the number of dates seen before its first
\* occurrence in the list of all masters followed by all slaves
EpochIndex(fs, d) ==
    LET dates == [i \in 1..2 * Len(fs) |->
                     IF i <= Len(fs) THEN fs[i].master ELSE fs[i - Len(fs)].slave]
        first == CHOOSE i \in 1..Len(dates) :
                     dates[i] = d /\ \A j \in 1..(i - 1) : dates[j] # d
    IN  Cardinality({dates[j] : j \in 1..(first - 1)})

\* C1: in the row block of the i-th interferogram the network design matrix
\* holds the negated no-offset design matrix at the columns of the master
\* epoch, the no-offset design matrix at the columns of the slave epoch,
\* zero in the columns of every other epoch, and with offsets 1 in offset
\* column i and 0 in every other offset column.
C1_BlockStructure ==
    NDMDone =>
        LET ndm == result.val
            ncoef == IF degree = PLANAR THEN 2 ELSE IF degree = QUADRATIC THEN 5 ELSE 6
            nepochs == Cardinality({ifgs[i].master : i \in 1..Len(ifgs)}
                                   \cup {ifgs[i].slave : i \in 1..Len(ifgs)})
        IN  \A i \in 1..Len(ifgs) :
                LET D == get_design_matrix(ifgs[i], degree, FALSE)
                    m == EpochIndex(ifgs, ifgs[i].master)
                    s == EpochIndex(ifgs, ifgs[i].slave)
                IN  \A k \in 1..num_cells(ifgs[i]) :
                        LET row == ndm[(i - 1) * num_cells(ifgs[i]) + k]
                        IN  /\ \A e \in 0..(nepochs - 1) :
                                   SubSeq(row, e * ncoef + 1, e * ncoef + ncoef) =
                                       IF e = s THEN D[k]
                                       ELSE IF e = m THEN [j \in 1..ncoef |-> -D[k][j]]
                                       ELSE [j \in 1..ncoef |-> 0]
                            /\ offset =>
                                   SubSeq(row, nepochs * ncoef + 1, Len(row)) =
                                       [j \in 1..Len(ifgs) |-> IF j = i THEN 1 ELSE 0]
                            /\ ~offset => Len(row) = nepochs * ncoef

\* two interferograms 1-2 and 3-1 of two pixels, planar, with offsets: the
\* second pixel of the second has its design row at epoch index 2 (date 1
\* has index 0, date 3 index 1, date 2 index 2: masters come first)
C1_Witness ==
    /\ NDMDone
    /\ Len(ifgs) = 2 /\ degree = PLANAR /\ offset
    /\ shape(ifgs[1]) = <<1, 2>> /\ ifgs[1].x_size = 2
    /\ <<ifgs[1].master, ifgs[1].slave>> = <<1, 2>>
    /\ <<ifgs[2].master, ifgs[2].slave>> = <<3, 1>>
    /\ result.val[4] = <<2, 0, -2, 0, 0, 0, 0, 1>>
    /\ result.val[2] = <<-2, 0, 0, 0, 2, 0, 1, 0>>

\* C2: the network design matrix of n_ifgs interferograms over n_epochs
\* distinct epochs has num_cells * n_ifgs rows and num_params(degree, no
\* offset) * n_epochs columns, plus n_ifgs columns exactly with offsets.
C2_NetworkShape ==
    NDMDone =>
        LET ndm == result.val
            nepochs == Cardinality({ifgs[i].master : i \in 1..Len(ifgs)}
                                   \cup {ifgs[i].slave : i \in 1..Len(ifgs)})
            ncoef == IF degree = PLANAR THEN 2 ELSE IF degree = QUADRATIC THEN 5 ELSE 6
        IN  /\ Len(ndm) = ifgs[1].nrows * ifgs[1].ncols * Len(ifgs)
            /\ \A r \in 1..Len(ndm) :
                   Len(ndm[r]) = ncoef * nepochs + (IF offset THEN Len(ifgs) ELSE 0)

\* two quadratic interferograms of 4 pixels over 3 epochs, with offsets: 8 x 17
C2_Witness ==
    /\ NDMDone
    /\ Len(ifgs) = 2 /\ degree = QUADRATIC /\ offset
    /\ num_cells(ifgs[1]) = 4
    /\ <<ifgs[1].master, ifgs[1].slave, ifgs[2].slave>> = <<1, 2, 3>>
    /\ Len(result.val) = 8 /\ Len(result.val[1]) = 17

-----------------------------------------------------------------------------
(* Least squares, stated without the solver                                *)

\* the k-th pixel (from 1) of the 2-D array a in row-major order
Pixel(a, k) == a[((k - 1) \div Len(a[1])) + 1][((k - 1) % Len(a[1])) + 1]

Pixels(a) == [k \in 1..(Len(a) * Len(a[1])) |-> Pixel(a, k)]

\* row k of the integer matrix A applied to the vector x
Applied(A, x, k) == RSum([j \in 1..Len(x) |-> RMul(FromInt(A[k][j]), x[j])])

\* x is a least-squares solution of the rows of A x = y whose y is a
\* number: the residual is orthogonal to every column
LeastSquaresOnValid(A, y, x) ==
    LET res == Eval([k \in 1..Len(A) |->
                   IF isnan(y[k]) THEN Zero ELSE RSub(Applied(A, x, k), y[k])])
    IN  \A j \in 1..Len(x) :
            RSum([k \in 1..Len(A) |-> RMul(FromInt(A[k][j]), res[k])]) = Zero

\* x is a combination of the rows of A whose y is a number, which makes it
\* the least-squares solution of minimum norm: eliminating the matrix of
\* those rows as columns, with x as one more column, leaves no row that is
\* zero but for x
InRowSpaceOfValid(A, y, x) ==
    LET V == Compress(A, [k \in 1..Len(y) |-> ~isnan(y[k])])
        T == Eval([j \in 1..Len(x) |->
                 Eval([k \in 1..Len(V) |-> FromInt(V[k][j])] \o <<x[j]>>)])
        R == Rref(T, 1, 1, Len(V))
    IN  \A j \in 1..Len(x) :
            (\A k \in 1..Len(V) : R[j][k] = Zero) => R[j][Len(V) + 1] = Zero

-----------------------------------------------------------------------------
(* Properties of the independent method (SpecIndependent)                  *)

\* the independent correction of interferogram i has been made
IndependentDone(i) ==
    /\ call = "orbital_correction" /\ method = INDEPENDENT_METHOD
    /\ pc \in {"ind_loop", "done"} /\ i < idx

\* C5: the coefficients fitted for an interferogram are those of the
\* system of its pixels with a phase only (the minimum-norm least-squares
\* solution of the rows without NaN), the surface taken from the pixels
\* with a phase is the fit of these coefficients, and the pixels without
\* a phase stay without one.
C5_FitOnValidPixels ==
    \A i \in 1..Len(ifgs) : IndependentDone(i) =>
        LET y == Pixels(ifgs0[i].phase_data)
            D == get_design_matrix(ifgs0[i], degree, offset)
            x == orbs[i].coef
        IN  /\ Len(x) = get_num_params(degree, offset)
            /\ \A j \in 1..Len(x) : ~isnan(x[j])
            /\ LeastSquaresOnValid(D, y, x)
            /\ InRowSpaceOfValid(D, y, x)
            /\ \A k \in 1..Len(y) :
                   Pixel(ifgs[i].phase_data, k) =
                       IF isnan(y[k]) THEN NaN ELSE RSub(y[k], Applied(D, x, k))

\* a planar fit with offset on the three pixels with a phase of a 2 x 2
\* interferogram: these three are fitted exactly
C5_Witness ==
    /\ IndependentDone(1) /\ pc = "done"
    /\ degree = PLANAR /\ offset = TRUE
    /\ shape(ifgs[1]) = <<2, 2>> /\ ifgs[1].x_size = 1 /\ ifgs[1].y_size = 1
    /\ ifgs0[1].phase_data = <<<<FromInt(1), NaN>>, <<FromInt(0), FromInt(1)>>>>
    /\ orbs[1].coef = <<FromInt(1), FromInt(-1), FromInt(1)>>
    /\ ifgs[1].phase_data = <<<<Zero, NaN>>, <<Zero, Zero>>>>

-----------------------------------------------------------------------------
(* Properties of the network method (SpecNetwork, SpecRoundTrip)           *)

\* the network correction of interferogram i has been made
NetworkDone(i) ==
    /\ call = "orbital_correction" /\ method = NETWORK_METHOD
    /\ pc \in {"net_loop", "done"} /\ i < idx

\* the observations of the network system: the pixels of all interferograms
Observations(fs) == Concat([i \in 1..Len(fs) |-> Pixels(fs[i].phase_data)])

\* C3: the surface subtracted from an interferogram is D (c[slave] -
\* c[master]) in the shape of its phase array, D its design matrix without
\* offset and c[k] the k-th run of num_params(degree, no offset) entries of
\* the minimum-norm least-squares solution of the network system without
\* its NaN rows, k the index of the epoch; the offset coefficients come
\* after all these runs.
C3_NetworkSurface ==
    \A i \in 1..Len(ifgs) : NetworkDone(i) =>
        LET ncoef == IF degree = PLANAR THEN 2 ELSE IF degree = QUADRATIC THEN 5 ELSE 6
            nepochs == Cardinality({ifgs[n].master : n \in 1..Len(ifgs)}
                                   \cup {ifgs[n].slave : n \in 1..Len(ifgs)})
            A == get_network_design_matrix(ifgs0, degree, offset).val
            D == get_design_matrix(ifgs0[i], degree, FALSE)
            m == EpochIndex(ifgs, ifgs[i].master)
            s == EpochIndex(ifgs, ifgs[i].slave)
            d == [j \in 1..ncoef |-> RSub(model[s * ncoef + j], model[m * ncoef + j])]
        IN  /\ Len(model) = ncoef * nepochs + (IF offset THEN Len(ifgs) ELSE 0)
            /\ (s + 1) * ncoef <= ncoef * nepochs /\ (m + 1) * ncoef <= ncoef * nepochs
            /\ i = idx - 1 =>
                   /\ LeastSquaresOnValid(A, Observations(ifgs0), model)
                   /\ InRowSpaceOfValid(A, Observations(ifgs0), model)
            /\ ShapeOf(orbs[i].orb) = ShapeOf(ifgs0[i].phase_data)
            /\ \A k \in 1..num_cells(ifgs[i]) :
                   /\ Pixel(orbs[i].orb, k) = Applied(D, d, k)
                   /\ Pixel(ifgs[i].phase_data, k) =
                          RSub(Pixel(ifgs0[i].phase_data, k),
                               RAdd(Pixel(orbs[i].orb, k), orbs[i].med))

\* two planar interferograms 1-2 and 2-3 with offsets: the surface of the
\* second is not zero though the two offset coefficients are not zero
C3_Witness ==
    /\ NetworkDone(2) /\ pc = "done"
    /\ degree = PLANAR /\ offset
    /\ <<ifgs[2].master, ifgs[2].slave>> = <<2, 3>>
    /\ \E k \in 1..num_cells(ifgs[2]) : Pixel(orbs[2].orb, k) \notin {Zero, NaN}
    /\ model[7] # Zero /\ model[8] # Zero
    /\ \E k \in 1..num_cells(ifgs[2]) : isnan(Pixel(ifgs0[2].phase_data, k))

\* the pixels of a 2-D array that are numbers
ValidPixels(a) == Compress(Pixels(a), [k \in 1..Len(Pixels(a)) |-> ~isnan(Pixel(a, k))])

\* C6: with the network method and offset=True the median of the pixels
\* with a phase of every corrected interferogram that has one is zero,
\* and the scalar subtracted with the surface is the median of the
\* interferogram's own residual.
C6_MedianZero ==
    \A i \in 1..Len(ifgs) : (NetworkDone(i) /\ offset = TRUE) =>
        /\ ValidPixels(ifgs[i].phase_data) # <<>> =>
               median(ValidPixels(ifgs[i].phase_data)) = Zero
        /\ ValidPixels(ifgs0[i].phase_data) # <<>> =>
               orbs[i].med = median(ValidPixels(ISub(ifgs0[i].phase_data, orbs[i].orb)))

\* a row of three pixels 0, 0, 1: the median of the residual, which is
\* subtracted, is not the fitted offset coefficient
C6_Witness ==
    /\ NetworkDone(1) /\ pc = "done"
    /\ degree = PLANAR /\ offset = TRUE
    /\ ifgs0[1].phase_data = <<<<Zero, Zero, FromInt(1)>>>>
    /\ orbs[1].med # model[Len(model)]
    /\ median(ValidPixels(ifgs[1].phase_data)) = Zero
    /\ mean(ValidPixels(ifgs[1].phase_data)) # Zero

\* C4: when every phase array is the difference of the planar surfaces of
\* its slave and master epochs, after the network correction with degree
\* PLANAR and offset=False every pixel with a phase is zero.
C4_RoundTrip ==
    (call = "orbital_correction" /\ pc = "done") =>
        \A i \in 1..Len(ifgs) : \A k \in 1..num_cells(ifgs[i]) :
            isnan(Pixel(ifgs0[i].phase_data, k)) \/ Pixel(ifgs[i].phase_data, k) = Zero

\* two interferograms 1-2 and 2-3 of surfaces that differ, both with a
\* pixel without data
C4_Witness ==
    /\ call = "orbital_correction" /\ pc = "done"
    /\ degree = PLANAR /\ method = NETWORK_METHOD /\ offset = FALSE
    /\ Len(ifgs) = 2
    /\ <<ifgs[2].master, ifgs[2].slave>> = <<2, 3>>
    /\ \A i \in 1..2 :
           /\ \E k \in 1..num_cells(ifgs[i]) : isnan(Pixel(ifgs0[i].phase_data, k))
           /\ \E k \in 1..num_cells(ifgs[i]) : Pixel(ifgs0[i].phase_data, k) \notin {Zero, NaN}
           /\ \A k \in 1..num_cells(ifgs[i]) : Pixel(ifgs[i].phase_data, k) \in {Zero, NaN}

-----------------------------------------------------------------------------
(* Properties of the argument checks of orbital_correction (Spec)          *)

BadDegree == degree \notin {PLANAR, QUADRATIC, PART_CUBIC}
BadMethod == method \notin {INDEPENDENT_METHOD, NETWORK_METHOD}

RaisedOrbitalError == pc = "raised" /\ error = "OrbitalError"

NoPhaseChanged == \A i \in 1..Len(ifgs) : ifgs[i].phase_data = ifgs0[i].phase_data

\* C9: a call of orbital_correction with a degree or a method that is not
\* one of the program's raises OrbitalError, and no phase array differs
\* then from what it was before the call.
C9_InvalidArgsRaise ==
    (call = "orbital_correction" /\ (BadDegree \/ BadMethod) /\ pc # "start") =>
        RaisedOrbitalError /\ NoPhaseChanged

\* a valid degree with the method None
C9_Witness ==
    /\ call = "orbital_correction"
    /\ degree = PART_CUBIC /\ method = NoneArg
    /\ RaisedOrbitalError /\ NoPhaseChanged
    /\ Len(ifgs) = 2

BadMlooked ==
    /\ mlooked.given
    /\ \/ Len(mlooked.items) # Len(ifgs)
       \/ \E i \in 1..Len(mlooked.items) : ~mlooked.items[i].has_phase_data

\* C10: a call of orbital_correction with a valid degree, a valid method
\* and a multilooked collection of another length than the
\* interferograms, or with an element without phase array, raises
\* OrbitalError and no phase array has been changed.
C10_BadMlookedRaises ==
    (call = "orbital_correction" /\ ~BadDegree /\ ~BadMethod /\ BadMlooked
        /\ pc \notin {"start", "dispatch"}) =>
            RaisedOrbitalError /\ NoPhaseChanged

-----------------------------------------------------------------------------
(* Properties of the argument checks of the matrix functions               *)
(* (SpecMatrixArgs)                                                        *)

MatrixCallEnded ==
    call \in {"get_design_matrix", "get_network_design_matrix"} /\ pc # "start"

NDMEnded == call = "get_network_design_matrix" /\ pc # "start"

\* C11: get_design_matrix and get_network_design_matrix each raise
\* OrbitalError, and return no matrix, for every degree that is not
\* PLANAR, QUADRATIC or PART_CUBIC.
C11_InvalidDegreeRejected ==
    (MatrixCallEnded /\ BadDegree) => (RaisedOrbitalError /\ result.val = <<>>)

C13_EmptyCollectionRaises ==
    (NDMEnded /\ ~BadDegree) =>
        /\ RaisedOrbitalError <=> Len(ifgs) = 0
        /\ pc = "done" <=> Len(ifgs) >= 1
        /\ Len(ifgs) = 1 =>
               /\ Len(result.val) = ifgs[1].nrows * ifgs[1].ncols
               /\ \A r \in 1..Len(result.val) :
                      Len(result.val[r]) =
                          2 * (IF degree = PLANAR THEN 2 ELSE IF degree = QUADRATIC THEN 5 ELSE 6)
                          + (IF offset THEN 1 ELSE 0)

\* the empty collection with a valid degree
C13_Witness ==
    /\ NDMEnded /\ ifgs = <<>>
    /\ degree = QUADRATIC /\ offset
    /\ RaisedOrbitalError /\ result.val = <<>>

-----------------------------------------------------------------------------
(* Collections of more than one geometry (SpecMixed)                       *)

MixedCells == \E i, j \in 1..Len(ifgs) : num_cells(ifgs[i]) # num_cells(ifgs[j])

\* C14: a collection in which two interferograms differ in num_cells is
\* rejected by get_network_design_matrix with a validation error
\* (OrbitalError), and no matrix made with the geometry of the first
\* interferogram is returned.
C14_MixedGeometryRejected ==
    (NDMEnded /\ MixedCells) => (RaisedOrbitalError /\ result.val = <<>>)

-----------------------------------------------------------------------------
(* Interferograms without any phase, independent method (SpecIndependent)  *)

NoPhase(ifg) == \A k \in 1..num_cells(ifg) : isnan(Pixel(ifg.phase_data, k))

\* the independent loop has come to interferogram i and left it, corrected or raising
IndependentTried(i) ==
    /\ call = "orbital_correction" /\ method = INDEPENDENT_METHOD
    /\ \/ pc \in {"ind_loop", "done"} /\ i < idx
       \/ pc = "raised" /\ i = idx

\* C15: in the independent method the fit of an interferogram whose phase
\* array is all NaN fails, the call raising with that phase array as it
\* was: no coefficients are returned for the system without rows.
C15_AllNaNFitFails ==
    \A i \in 1..Len(ifgs) : (IndependentTried(i) /\ NoPhase(ifgs0[i])) =>
        /\ pc = "raised" /\ error # NoError
        /\ orbs[i].coef = <<>>
        /\ ifgs[i].phase_data = ifgs0[i].phase_data

-----------------------------------------------------------------------------
(* The independent method on several interferograms (SpecTasks)            *)

IndependentCall ==
    call \in {"orbital_correction", "independent_tasks"} /\ method = INDEPENDENT_METHOD

\* interferogram i holds its input less the minimum-norm least-squares fit
\* of its own pixels with a phase, orbs[i].coef the coefficients
OwnCorrection(i) ==
    LET y == Pixels(ifgs0[i].phase_data)
        D == get_design_matrix(ifgs0[i], degree, offset)
        x == orbs[i].coef
    IN  /\ Len(x) = get_num_params(degree, offset)
        /\ LeastSquaresOnValid(D, y, x)
        /\ InRowSpaceOfValid(D, y, x)
        /\ \A k \in 1..Len(y) :
               Pixel(ifgs[i].phase_data, k) =
                   IF isnan(y[k]) THEN NaN ELSE RSub(y[k], Applied(D, x, k))

\* what the task of interferogram i alone leaves: the correction, or the
\* input when there is no phase to fit
OwnTaskResult(i) ==
    IF NoPhase(ifgs0[i]) THEN ifgs[i].phase_data = ifgs0[i].phase_data
    ELSE OwnCorrection(i)

\* the loop has returned or raised, or every task has ended
AllEnded ==
    \/ call = "orbital_correction" /\ pc \in {"done", "raised"}
    \/ call = "independent_tasks" /\ \A i \in 1..Len(ifgs) : tasks[i] \in {"done", "failed"}

C17_FailureKeepsEarlier ==
    (call = "orbital_correction" /\ method = INDEPENDENT_METHOD /\ pc = "raised"
        /\ ~BadDegree /\ ~BadMethod) =>
        /\ error # NoError /\ idx \in 1..Len(ifgs)
        /\ \A i \in 1..(idx - 1) : OwnCorrection(i)
        /\ \A i \in idx..Len(ifgs) :
               /\ ifgs[i].phase_data = ifgs0[i].phase_data
               /\ orbs[i].orb = <<>> /\ orbs[i].coef = <<>>

\* the second of three fails: the first is changed, the third is not though it has a slope
C17_Witness ==
    /\ call = "orbital_correction" /\ method = INDEPENDENT_METHOD /\ pc = "raised"
    /\ Len(ifgs) = 3 /\ idx = 2 /\ offset = FALSE
    /\ ifgs[1].phase_data # ifgs0[1].phase_data
    /\ NoPhase(ifgs0[2])
    /\ ifgs0[3].phase_data = <<<<Zero, FromInt(1)>>>>
    /\ ifgs[3].phase_data = ifgs0[3].phase_data

-----------------------------------------------------------------------------
(* The network method with an interferogram without any phase (SpecNetwork) *)

\* C19: in the network method a collection with an interferogram whose
\* phase array is all NaN, and another that has a phase, is corrected
\* without error with and without offsets: the solution is that of the
\* rows with a phase, every interferogram with a phase loses its surface
\* (and median), and the one without stays all NaN.
C19_AllNaNBlockTolerated ==
    (call = "orbital_correction" /\ method = NETWORK_METHOD /\ Len(ifgs) >= 2
        /\ (\E i \in 1..Len(ifgs) : NoPhase(ifgs0[i]))
        /\ (\E i \in 1..Len(ifgs) : ~NoPhase(ifgs0[i]))) =>
        /\ pc # "raised" /\ error = NoError
        /\ pc \in {"net_loop", "done"} =>
               /\ \A j \in 1..Len(model) : ~isnan(model[j])
               /\ idx = 1 =>
                      LeastSquaresOnValid(get_network_design_matrix(ifgs0, degree, offset).val,
                                          Observations(ifgs0), model)
        /\ \A i \in 1..Len(ifgs) : NetworkDone(i) =>
               /\ NoPhase(ifgs0[i]) => NoPhase(ifgs[i])
               /\ \A k \in 1..num_cells(ifgs[i]) :
                      /\ ~isnan(Pixel(orbs[i].orb, k))
                      /\ ~isnan(Pixel(ifgs0[i].phase_data, k)) =>
                             /\ ~isnan(orbs[i].med)
                             /\ Pixel(ifgs[i].phase_data, k) =
                                    RSub(RSub(Pixel(ifgs0[i].phase_data, k),
                                              Pixel(orbs[i].orb, k)), orbs[i].med)

\* with offsets: the first interferogram has no phase and stays so, the
\* second is changed
C19_Witness ==
    /\ call = "orbital_correction" /\ method = NETWORK_METHOD /\ pc = "done"
    /\ Len(ifgs) = 2 /\ offset = TRUE
    /\ NoPhase(ifgs0[1]) /\ NoPhase(ifgs[1]) /\ isnan(orbs[1].med)
    /\ ~NoPhase(ifgs0[2]) /\ ifgs[2].phase_data # ifgs0[2].phase_data
    /\ \E j \in 1..Len(model) : model[j] # Zero

-----------------------------------------------------------------------------
(* The network method with a multilooked collection (SpecMlooked)          *)

NetworkSolved ==
    call = "orbital_correction" /\ method = NETWORK_METHOD /\ pc \in {"net_loop", "done"}

\* the collection the observations and the network matrix are made of
Observed == IF mlooked.given THEN mlooked.items ELSE ifgs

\* C18: within a network correction the epoch indices are a bijection
\* from the epochs onto 0..n_epochs-1, and the index that placed the
\* blocks of an interferogram in the network matrix is the index that
\* selects its coefficients in the expansion, also when the matrix was
\* made from a multilooked collection that _validate_mlooked accepted.
C18_SameEpochIndex ==
    NetworkSolved =>
        LET placed == master_slave_ids(get_all_epochs(Observed))
            selected == master_slave_ids(get_all_epochs(ifgs))
        IN  /\ \A ids \in {placed, selected} :
                   /\ {ids[d] : d \in DOMAIN ids} = 0..(Cardinality(DOMAIN ids) - 1)
                   /\ \A d, e \in DOMAIN ids : ids[d] = ids[e] => d = e
            /\ \A i \in 1..Len(ifgs) :
                   /\ placed[Observed[i].master] = selected[ifgs[i].master]
                   /\ placed[Observed[i].slave] = selected[ifgs[i].slave]

\* the network call was given a multilooked collection
MlookedCall == call = "orbital_correction" /\ method = NETWORK_METHOD /\ mlooked.given

\* the fitted coefficients solve the system of the multilooked
\* interferograms; an interferogram the loop has not passed is as given
\* and a call that returns has passed all of them
MlookedObserved ==
    MlookedCall =>
        /\ pc \in {"net_loop", "done"} =>
               LET A == get_network_design_matrix(mlooked.items, degree, offset).val
                   y == Observations(mlooked.items)
               IN  /\ Len(model) = Len(A[1])
                   /\ LeastSquaresOnValid(A, y, model)
                   /\ InRowSpaceOfValid(A, y, model)
        /\ \A i \in 1..Len(ifgs) : i >= idx => ifgs[i] = ifgs0[i]
        /\ pc = "done" => idx = Len(ifgs) + 1

\* a step leaves the multilooked collection alone and writes at most the
\* interferogram the loop is at, which it then leaves behind
OnlyCurrentWritten ==
    /\ mlooked' = mlooked
    /\ \A i \in 1..Len(ifgs) :
           ifgs'[i] # ifgs[i] => (pc = "net_loop" /\ i = idx /\ idx' = idx + 1)
    /\ idx' < idx => idx' = 1 /\ pc = "dispatch"

\* C20: given a multilooked collection the network method makes the
\* observation vector and the network matrix from the multilooked
\* interferograms only, changes no multilooked phase array, and writes
\* nothing but the phase array of each full-resolution interferogram, once.
C20_MlookedOnlyObserved == []MlookedObserved /\ [][OnlyCurrentWritten]_vars

\* two interferograms corrected with coefficients that their own phase
\* arrays would not have given
C20_Witness ==
    /\ MlookedCall /\ pc = "done" /\ Len(ifgs) = 2
    /\ Observations(mlooked.items) # Observations(ifgs0)
    /\ model # network_model(ifgs0, degree, offset, "new").val
    /\ \A i \in 1..Len(ifgs) : ifgs[i] # ifgs0[i]

-----------------------------------------------------------------------------
(* The pixels without phase, both methods (Spec)                           *)

\* the arrays a and b have one shape and their NaN at the same pixels
SameNoData(a, b) ==
    /\ ShapeOf(a) = ShapeOf(b)
    /\ \A r \in 1..Len(a) : Len(a[r]) = Len(b[r])
    /\ \A r \in 1..Len(a) : \A c \in 1..Len(a[r]) : isnan(a[r][c]) <=> isnan(b[r][c])

\* C21: when a call of orbital_correction returns, for either method, any
\* valid degree and both offset settings, on interferograms that have each
\* a pixel with a phase, every phase array has the shape it had and its
\* NaN where it had them: no NaN pixel is filled, no pixel with a phase
\* becomes NaN.
C21_NoDataKept ==
    (call = "orbital_correction" /\ pc = "done"
        /\ \A i \in 1..Len(ifgs) : ~NoPhase(ifgs0[i])) =>
        \A i \in 1..Len(ifgs) : SameNoData(ifgs[i].phase_data, ifgs0[i].phase_data)

\* two interferograms, each with a NaN pixel and a pixel with a phase, the
\* second changed by the call
C21_Witness ==
    /\ call = "orbital_correction" /\ pc = "done" /\ Len(ifgs) = 2
    /\ \A i \in 1..Len(ifgs) :
           /\ ~NoPhase(ifgs0[i])
           /\ \E k \in 1..num_cells(ifgs0[i]) : isnan(Pixel(ifgs0[i].phase_data, k))
    /\ ifgs[2].phase_data # ifgs0[2].phase_data

====
